---- MODULE Spec2Model ----
(***************************************************************************)
(* A model of the response handling of the signal-messenger client:        *)
(* the operation modules (signal_messenger/modules/*.py) and the pydantic  *)
(* entity models (signal_messenger/models.py).                             *)
(*                                                                         *)
(* JSON values and Python values are tagged records:                       *)
(*   [t |-> "null"], [t |-> "bool", b |-> b], [t |-> "int", i |-> n],      *)
(*   [t |-> "str", s |-> s], [t |-> "arr", a |-> <<...>>],                 *)
(*   [t |-> "obj", o |-> [key |-> value]],                                 *)
(*   [t |-> "model", cls |-> C, m |-> [attribute |-> value]],              *)
(*   [t |-> "datetime", d |-> n], [t |-> "bytes", body |-> the body].      *)
(* The keys of an object are iterated in the order of KeyOrder.            *)
(***************************************************************************)
EXTENDS Integers, Sequences, FiniteSets, TLC

VARIABLES
  pc,        \* position of the call: "idle", "awaiting", "returned", "done"
  op,        \* the operation invoked
  args,      \* its arguments
  sent,      \* the HTTP requests issued for the current call, in order
  response,  \* what the request executor handed back to the operation
  result,    \* what the operation returned or raised
  mcls,      \* entity class under construction (model construction runs)
  mrec,      \* the record it is built from
  mout,      \* the outcome of the construction
  fields,    \* the fields of the module object: base_url, _module_session
  tasks      \* concurrent calls on that object, each with its own locals

vars == <<pc, op, args, sent, response, result, mcls, mrec, mout, fields, tasks>>
callVars == <<pc, op, args, sent, response, result>>
modelVars == <<mcls, mrec, mout>>
taskVars == <<fields, tasks>>

-----------------------------------------------------------------------------
(* Values *)

Null == [t |-> "null"]
B(b) == [t |-> "bool", b |-> b]
I(n) == [t |-> "int", i |-> n]
S(s) == [t |-> "str", s |-> s]
A(q) == [t |-> "arr", a |-> q]
O(f) == [t |-> "obj", o |-> f]
M(c, f) == [t |-> "model", cls |-> c, m |-> f]
DateTime(n) == [t |-> "datetime", d |-> n]

\* Python's None as an optional string argument, and "nothing yet" for the
\* variables that hold records.
None == "none"
Nothing == [kind |-> "none"]
Ok(x) == [kind |-> "ok", v |-> x]
Raise(e) == [kind |-> "raise", exc |-> e]

IsDict(x) == x.t = "obj"
IsList(x) == x.t = "arr"
IsStr(x) == x.t = "str"

\* The order in which the keys of a JSON object are met when it is iterated.
KeyOrder ==
  << "groups", "messages", "stickers", "contacts", "devices",
     "id", "key", "name", "message", "type", "timestamp", "role",
     "level", "Level", "logging", "Logging", "trust_mode", "trust_level",
     "emoji", "members", "number", "error", "identities", "attachments",
     "receipts", "sender", "title", "x" >>

OrderedKeys(f) == SelectSeq(KeyOrder, LAMBDA k : k \in DOMAIN f)

-----------------------------------------------------------------------------
(* Python built-ins used by the modules *)

Digit == << "0", "1", "2", "3", "4", "5", "6", "7", "8", "9" >>

RECURSIVE IntStr(_)
IntStr(n) ==
  IF n < 10 THEN Digit[n + 1] ELSE IntStr(n \div 10) \o Digit[(n % 10) + 1]

RECURSIVE Join(_, _)
Join(q, sep) ==
  IF q = <<>> THEN ""
  ELSE IF Len(q) = 1 THEN q[1]
  ELSE q[1] \o sep \o Join(Tail(q), sep)

\* repr(x)
RECURSIVE PyRepr(_)
PyRepr(x) ==
  CASE x.t = "null" -> "None"
    [] x.t = "bool" -> IF x.b THEN "True" ELSE "False"
    [] x.t = "int" -> IntStr(x.i)
    [] x.t = "str" -> "'" \o x.s \o "'"
    [] x.t = "arr" ->
         "[" \o Join([i \in DOMAIN x.a |-> PyRepr(x.a[i])], ", ") \o "]"
    [] x.t = "obj" ->
         LET ks == OrderedKeys(x.o)
         IN "{" \o Join([i \in DOMAIN ks |->
                           "'" \o ks[i] \o "': " \o PyRepr(x.o[ks[i]])], ", ")
                \o "}"

\* str(x)
PyStr(x) == IF x.t = "str" THEN x.s ELSE PyRepr(x)

\* The characters of the strings a payload may hold as a bare scalar.
Chars(s) ==
  CASE s = "" -> <<>>
    [] s = "g1" -> << "g", "1" >>
    [] s = "hi" -> << "h", "i" >>

\* `for e in x`: the elements met, or TypeError when x is not iterable.
Iterate(x) ==
  CASE x.t = "arr" -> Ok(x.a)
    [] x.t = "obj" ->
         LET ks == OrderedKeys(x.o) IN Ok([i \in DOMAIN ks |-> S(ks[i])])
    [] x.t = "str" ->
         LET cs == Chars(x.s) IN Ok([i \in DOMAIN cs |-> S(cs[i])])
    [] OTHER -> Raise("TypeError")

\* bool(x) for the values the models test
Truthy(x) ==
  CASE x.t = "null" -> FALSE
    [] x.t = "bool" -> x.b
    [] x.t = "int" -> x.i # 0
    [] x.t = "str" -> x.s # ""
    [] x.t = "arr" -> x.a # <<>>
    [] x.t = "obj" -> DOMAIN x.o # {}
    [] OTHER -> TRUE

-----------------------------------------------------------------------------
(* Entity models: signal_messenger/models.py *)

\* A declared field: its name, the kind of its type, the entity / enum / item
\* type it refers to, whether None is accepted (Optional), whether it is
\* required, and its default.
F(name, k, of, opt, req, def) ==
  [name |-> name, k |-> k, of |-> of, opt |-> opt, req |-> req, def |-> def]

Req(name, k, of) == F(name, k, of, FALSE, TRUE, Null)
Opt(name, k, of) == F(name, k, of, TRUE, FALSE, Null)
OptStr(name) == Opt(name, "str", "")
OptInt(name) == Opt(name, "int", "")
OptBool(name) == Opt(name, "bool", "")
\* A variant whose list fields are Optional and default to None.
ListOfOrNone(name, of) == F(name, "list", of, TRUE, FALSE, Null)

ListOf(name, of) == F(name, "list", of, FALSE, FALSE, A(<<>>))

DeviceType == { "mobile", "desktop", "unknown" }
MessageType == { "incoming", "outgoing", "sync" }
GroupRole == { "ADMINISTRATOR", "DEFAULT" }
TrustLevel == { "TRUSTED_UNVERIFIED", "TRUSTED_VERIFIED", "UNTRUSTED" }
ReceiptType == { "read", "viewed", "delivery" }

EnumMembers(e) ==
  CASE e = "DeviceType" -> DeviceType
    [] e = "MessageType" -> MessageType
    [] e = "GroupRole" -> GroupRole
    [] e = "TrustLevel" -> TrustLevel
    [] e = "ReceiptType" -> ReceiptType

LoggingConfigDefault == M("LoggingConfig", [level |-> S(""), Level |-> S("")])

GroupFields ==
  << OptStr("name"), OptStr("description"),
     ListOf("members", "GroupMember"), ListOf("pending_members", "GroupMember"),
     ListOf("requesting_members", "GroupMember"), ListOf("admins", "GroupMember"),
     OptBool("active"), OptBool("blocked"),
     OptStr("permission_add_member"), OptStr("permission_edit_details"),
     OptStr("permission_send_message"), OptStr("link"),
     OptInt("message_expiration_time") >>

DeviceFields ==
  << Req("id", "int", ""), OptStr("name"),
     Opt("created", "datetime", ""), Opt("last_seen", "datetime", ""),
     F("type", "enum", "DeviceType", TRUE, FALSE, S("unknown")) >>

Fields(cls) ==
  CASE cls = "LoggingConfig" ->
         << F("level", "str", "", FALSE, FALSE, S("")),
            F("Level", "str", "", FALSE, FALSE, S("")) >>
    [] cls = "Configuration" ->
         << F("logging", "model", "LoggingConfig", FALSE, FALSE,
              LoggingConfigDefault),
            Opt("Logging", "model", "LoggingConfig") >>
    [] cls = "Capabilities" -> <<>>
    [] cls = "About" ->
         << Req("build", "int", ""),
            F("capabilities", "dictoflists", "", FALSE, FALSE, O(<<>>)),
            Req("mode", "str", ""), Req("version", "str", ""),
            Req("versions", "list", "@str") >>
    [] cls = "AccountSettings" -> << Req("trust_mode", "str", "") >>
    [] cls = "AccountRegistrationResponse" ->
         << OptBool("captcha_required"), OptBool("verification_required") >>
    [] cls \in { "AccountVerificationResponse", "AccountDetails" } ->
         << OptStr("uuid"), OptStr("number"), OptBool("registered") >>
    [] cls = "Device" -> DeviceFields
    [] cls = "LinkedDevice" ->
         DeviceFields \o << F("linked", "bool", "", FALSE, FALSE, B(TRUE)) >>
    [] cls = "MessageAttachment" ->
         << Req("id", "str", ""), OptStr("content_type"), OptStr("filename"),
            OptInt("size") >>
    [] cls = "MessageMention" ->
         << Req("uuid", "str", ""), Req("start", "int", ""),
            Req("length", "int", "") >>
    [] cls = "MessageQuote" ->
         << Req("id", "int", ""), Req("author", "str", ""),
            Req("text", "str", ""), ListOf("attachments", "MessageAttachment") >>
    [] cls = "Message" ->
         << OptStr("id"), Opt("type", "enum", "MessageType"),
            OptStr("source"), OptStr("source_uuid"), OptInt("source_device"),
            OptInt("timestamp"), OptInt("server_timestamp"),
            OptInt("server_delivered_timestamp"),
            OptBool("has_legacy_message"), OptBool("unidentified_sender"),
            OptStr("message"), OptInt("expiration"), OptBool("is_view_once"),
            OptBool("is_story"),
            ListOf("attachments", "MessageAttachment"),
            ListOf("mentions", "MessageMention"),
            Opt("quote", "model", "MessageQuote"),
            ListOf("reactions", "Reaction"),
            Opt("sticker", "model", "Sticker"),
            Opt("group_info", "model", "GroupInfo") >>
    [] cls = "GroupMember" ->
         << OptStr("uuid"), OptStr("number"),
            F("role", "enum", "GroupRole", TRUE, FALSE, S("DEFAULT")) >>
    [] cls = "GroupInfo" -> << Req("group_id", "str", "") >> \o GroupFields
    [] cls = "Group" ->
         << Req("id", "str", ""), OptStr("internal_id"), OptStr("avatar") >>
         \o GroupFields
    [] cls = "Attachment" ->
         << Req("id", "str", ""), OptStr("content_type"), OptStr("filename"),
            OptInt("size"), OptStr("stored_filename"), OptInt("width"),
            OptInt("height"), OptBool("voice_note"), OptStr("caption"),
            Opt("preview", "dict", "") >>
    [] cls = "Profile" ->
         << OptStr("uuid"), OptStr("number"), OptStr("name"),
            OptStr("given_name"), OptStr("family_name"), OptStr("about"),
            OptStr("about_emoji"), OptStr("avatar"), OptStr("color"),
            OptBool("profile_sharing"), ListOf("capabilities", "@str") >>
    [] cls = "Identity" ->
         << OptStr("uuid"), OptStr("number"),
            Opt("trust_level", "enum", "TrustLevel"),
            Opt("added", "datetime", ""), OptStr("fingerprint"),
            OptStr("safety_number"), OptStr("scanned_safety_number") >>
    [] cls = "Reaction" ->
         << Req("emoji", "str", ""), OptStr("author"), OptStr("author_uuid"),
            OptStr("target_author"), OptStr("target_author_uuid"),
            OptInt("timestamp"), OptInt("received_timestamp") >>
    [] cls = "Receipt" ->
         << Req("type", "enum", "ReceiptType"), OptStr("sender"),
            OptStr("sender_uuid"), OptInt("sender_device"),
            OptInt("timestamp"), OptInt("when") >>
    [] cls = "SearchResult" -> << ListOf("results", "@any"), OptStr("query") >>
    [] cls = "Sticker" ->
         << Req("id", "int", ""), OptStr("emoji"), OptStr("pack_id"),
            OptStr("pack_key"), Opt("attachment", "model", "Attachment") >>
    [] cls = "StickerPack" ->
         << Req("id", "str", ""), Req("key", "str", ""), OptStr("title"),
            OptStr("author"), ListOf("stickers", "Sticker"),
            Opt("cover", "model", "Sticker"), OptBool("installed") >>
    [] cls = "Contact" ->
         << OptStr("uuid"), OptStr("number"), OptStr("name"),
            OptStr("given_name"), OptStr("family_name"), OptStr("color"),
            OptStr("profile_key"), OptBool("blocked"), OptInt("expiration") >>

FieldNames(cls) == { Fields(cls)[i].name : i \in DOMAIN Fields(cls) }

\* model_config = ConfigDict(extra="allow"); pydantic's default is "ignore".
ExtraAllowed(cls) ==
  cls \notin { "LoggingConfig", "Configuration", "About", "AccountSettings" }

-----------------------------------------------------------------------------
(* pydantic validation (lax mode), as BaseModel.__init__ applies it *)

\* int("12"): the decimal strings up to MaxParse are the numeric strings of
\* the model; every other string of the model is non-numeric.
MaxParse == 20
IsNumeric(s) == \E n \in 0..MaxParse : IntStr(n) = s
ParseInt(s) == CHOOSE n \in 0..MaxParse : IntStr(n) = s

BoolTrue == { "1", "on", "t", "true", "y", "yes" }
BoolFalse == { "0", "off", "f", "false", "n", "no" }

ValidationError == Raise("ValidationError")

ValidateStr(x) == IF x.t = "str" THEN Ok(x) ELSE ValidationError

ValidateInt(x) ==
  CASE x.t = "int" -> Ok(x)
    [] x.t = "bool" -> Ok(I(IF x.b THEN 1 ELSE 0))
    [] x.t = "str" ->
         IF IsNumeric(x.s) THEN Ok(I(ParseInt(x.s))) ELSE ValidationError
    [] OTHER -> ValidationError

ValidateBool(x) ==
  CASE x.t = "bool" -> Ok(x)
    [] x.t = "int" -> IF x.i \in {0, 1} THEN Ok(B(x.i = 1)) ELSE ValidationError
    [] x.t = "str" ->
         IF x.s \in BoolTrue THEN Ok(B(TRUE))
         ELSE IF x.s \in BoolFalse THEN Ok(B(FALSE))
         ELSE ValidationError
    [] OTHER -> ValidationError

ValidateEnum(e, x) ==
  IF x.t = "str" /\ x.s \in EnumMembers(e) THEN Ok(x) ELSE ValidationError

ValidateDateTime(x) ==
  CASE x.t = "int" -> Ok(DateTime(x.i))
    [] x.t = "str" ->
         IF IsNumeric(x.s) THEN Ok(DateTime(ParseInt(x.s))) ELSE ValidationError
    [] OTHER -> ValidationError

\* Dict[str, List[str]]
ValidateDictOfLists(x) ==
  IF /\ x.t = "obj"
     /\ \A k \in DOMAIN x.o :
          /\ x.o[k].t = "arr"
          /\ \A i \in DOMAIN x.o[k].a : x.o[k].a[i].t = "str"
  THEN Ok(x) ELSE ValidationError

\* A variant in which the capitalized spelling always wins.
PostInitOverwrite(cls, e) ==
  IF cls = "LoggingConfig" /\ Truthy(e.m["Level"])
  THEN M(cls, [e.m EXCEPT !["level"] = e.m["Level"]])
  ELSE e

\* A variant in which a capitalized Logging entry always replaces logging.
PostInitLoggingWins(cls, e) ==
  CASE cls = "LoggingConfig" ->
         IF ~Truthy(e.m["level"]) /\ Truthy(e.m["Level"])
         THEN M(cls, [e.m EXCEPT !["level"] = e.m["Level"]])
         ELSE e
    [] cls = "Configuration" ->
         IF Truthy(e.m["Logging"])
         THEN M(cls, [e.m EXCEPT !["logging"] = e.m["Logging"]])
         ELSE e
    [] OTHER -> e

\* LoggingConfig.__init__ and Configuration.__init__, after super().__init__
PostInit(cls, e) ==
  CASE cls = "LoggingConfig" ->
         IF ~Truthy(e.m["level"]) /\ Truthy(e.m["Level"])
         THEN M(cls, [e.m EXCEPT !["level"] = e.m["Level"]])
         ELSE e
    [] cls = "Configuration" ->
         IF ~Truthy(e.m["logging"].m["level"]) /\ Truthy(e.m["Logging"])
         THEN M(cls, [e.m EXCEPT !["logging"] = e.m["Logging"]])
         ELSE e
    [] OTHER -> e

RECURSIVE ValidateField(_, _), ValidateModel(_, _), FieldOutcome(_, _)

\* One value against one declared field type.
ValidateField(f, x) ==
  IF x.t = "null" THEN (IF f.opt THEN Ok(Null) ELSE ValidationError)
  ELSE
  CASE f.k = "str" -> ValidateStr(x)
    [] f.k = "int" -> ValidateInt(x)
    [] f.k = "bool" -> ValidateBool(x)
    [] f.k = "enum" -> ValidateEnum(f.of, x)
    [] f.k = "datetime" -> ValidateDateTime(x)
    [] f.k = "dict" -> IF x.t = "obj" THEN Ok(x) ELSE ValidationError
    [] f.k = "dictoflists" -> ValidateDictOfLists(x)
    [] f.k = "model" ->
         CASE x.t = "obj" -> ValidateModel(f.of, x.o)
           [] x.t = "model" -> IF x.cls = f.of THEN Ok(x) ELSE ValidationError
           [] OTHER -> ValidationError
    [] f.k = "list" ->
         IF x.t # "arr" THEN ValidationError
         ELSE LET item == CASE f.of = "@str" -> Req("item", "str", "")
                            [] f.of = "@any" -> Req("item", "any", "")
                            [] OTHER -> Req("item", "model", f.of)
                  out == [i \in DOMAIN x.a |-> ValidateField(item, x.a[i])]
              IN IF \E i \in DOMAIN out : out[i].kind = "raise"
                 THEN ValidationError
                 ELSE Ok(A([i \in DOMAIN out |-> out[i].v]))
    [] f.k = "any" -> Ok(x)

\* The declared field f of an entity built from rec: the validated value, the
\* default when rec has no such key, or an error (invalid, or required and
\* missing).
FieldOutcome(f, rec) ==
  IF f.name \in DOMAIN rec THEN ValidateField(f, rec[f.name])
  ELSE IF f.req THEN ValidationError
  ELSE Ok(f.def)

\* The entity cls built from the keys of rec: every declared field is validated (or defaulted, or reported
\* missing); undeclared keys are kept when the class allows extras and dropped
\* otherwise; any field error raises for the whole entity.
ValidateModel(cls, rec) ==
  LET fs == Fields(cls)
      out == [i \in DOMAIN fs |-> FieldOutcome(fs[i], rec)]
      extras == IF ExtraAllowed(cls) THEN DOMAIN rec \ FieldNames(cls) ELSE {}
      at(k) == CHOOSE i \in DOMAIN fs : fs[i].name = k
  IN IF \E i \in DOMAIN fs : out[i].kind = "raise"
     THEN ValidationError
     ELSE Ok(PostInit(cls,
               M(cls, [k \in FieldNames(cls) \cup extras |->
                         IF k \in FieldNames(cls) THEN out[at(k)].v
                         ELSE rec[k]])))

\* The entity cls built from an arbitrary value x, unpacked as keyword
\* arguments: unpacking needs a mapping.
Construct(cls, x) ==
  IF x.t = "obj" THEN ValidateModel(cls, x.o) ELSE Raise("TypeError")

-----------------------------------------------------------------------------
(* The operations: signal_messenger/modules/*.py *)

\* Operations that return the executor's payload as it is.
PassThroughOps ==
  { "accounts.register_account", "accounts.verify_account",
    "accounts.get_account_details", "accounts.update_account",
    "accounts.delete_account", "accounts.set_pin", "accounts.remove_pin",
    "attachments.delete_attachment", "attachments.get_attachment_info",
    "contacts.get_contact", "contacts.add_contact", "contacts.update_contact",
    "contacts.delete_contact", "contacts.block_contact",
    "contacts.unblock_contact",
    "devices.link_device", "devices.get_qr_code_link",
    "devices.register_device", "devices.verify_device",
    "groups.delete_group", "groups.leave_group",
    "identities.get_identity", "identities.trust_identity",
    "identities.verify_identity", "identities.reset_identity_session",
    "messages.send_typing_indicator", "messages.delete_message",
    "profiles.get_profile", "profiles.update_profile",
    "profiles.get_contact_profile", "profiles.set_profile_sharing",
    "receipts.send_read_receipt", "receipts.send_viewed_receipt",
    "receipts.send_delivery_receipt" }

\* List operations that return the unwrapped payload without building entities.
RawListOps ==
  { "attachments.get_attachments", "contacts.get_contacts",
    "contacts.get_blocked_contacts", "devices.get_linked_devices",
    "identities.get_identities", "profiles.get_contacts_profiles",
    "receipts.get_receipts", "receipts.get_message_receipts",
    "search.search_messages", "search.search_contacts",
    "search.search_groups" }

\* List operations that build entities.
TypedListOps ==
  { "groups.get_groups", "messages.get_messages", "stickers.get_sticker_packs" }

ListOps == RawListOps \cup TypedListOps

MemberOps == { "groups.add_members", "groups.remove_members", "groups.join_group" }

ReceiptOps ==
  { "messages.send_read_receipt", "messages.send_viewed_receipt",
    "messages.send_delivery_receipt" }

\* The same three operations in the receipts module, which return the response.
RawReceiptOps ==
  { "receipts.send_read_receipt", "receipts.send_viewed_receipt",
    "receipts.send_delivery_receipt" }

StickerPackOps == { "stickers.get_sticker_pack", "stickers.install_sticker_pack" }

\* Operations that use the session directly instead of make_request.
SessionOps ==
  { "attachments.upload_attachment", "attachments.get_attachment",
    "stickers.upload_sticker_pack" }

Ops ==
  PassThroughOps \cup ListOps \cup MemberOps \cup ReceiptOps
  \cup StickerPackOps \cup SessionOps
  \cup { "groups.get_group", "groups.create_group", "groups.update_group",
         "messages.send_message", "search.search_all" }

\* The key a list operation looks for in an object payload.
ContainerKey(o) ==
  CASE o \in { "groups.get_groups", "search.search_groups" } -> "groups"
    [] o \in { "messages.get_messages", "search.search_messages" } -> "messages"
    [] o = "stickers.get_sticker_packs" -> "stickers"
    [] o \in { "contacts.get_contacts", "contacts.get_blocked_contacts",
               "profiles.get_contacts_profiles", "search.search_contacts" }
         -> "contacts"
    [] o = "devices.get_linked_devices" -> "devices"
    [] o = "identities.get_identities" -> "identities"
    [] o = "attachments.get_attachments" -> "attachments"
    [] o \in { "receipts.get_receipts", "receipts.get_message_receipts" }
         -> "receipts"

\* if isinstance(response, dict) and key in response: response[key]
\* elif isinstance(response, list): response
\* else: [response]
Unwrap(key, resp) ==
  IF IsDict(resp) /\ key \in DOMAIN resp.o THEN resp.o[key]
  ELSE IF IsList(resp) THEN resp
  ELSE A(<< resp >>)

\* result = []; for e in xs: result.append(Conv(e)); return result
\* The first element whose conversion raises ends the loop and the call.
ForEach(xs, Conv(_)) ==
  LET it == Iterate(xs)
  IN IF it.kind = "raise" THEN it
     ELSE LET out == [i \in DOMAIN it.v |-> Conv(it.v[i])]
              bad == { i \in DOMAIN out : out[i].kind = "raise" }
          IN IF bad # {}
             THEN out[CHOOSE i \in bad : \A j \in bad : i <= j]
             ELSE Ok(A([i \in DOMAIN out |-> out[i].v]))

GroupOf(group) ==
  IF IsDict(group) THEN ValidateModel("Group", group.o)
  ELSE ValidateModel("Group", [id |-> S(PyStr(group))])

MessageOf(msg) ==
  IF IsDict(msg) THEN ValidateModel("Message", msg.o)
  ELSE IF IsStr(msg) THEN ValidateModel("Message", [message |-> msg])
  ELSE ValidateModel("Message", [message |-> S(PyStr(msg))])

StickerPackOf(pack) == Construct("StickerPack", pack)

get_groups(resp) == ForEach(Unwrap("groups", resp), GroupOf)

get_messages(resp) == ForEach(Unwrap("messages", resp), MessageOf)

get_sticker_packs(resp) == ForEach(Unwrap("stickers", resp), StickerPackOf)

raw_list(o, resp) == Ok(Unwrap(ContainerKey(o), resp))

\* d, with k set to x when d has no key k
SetDefault(d, k, x) == IF k \in DOMAIN d THEN d ELSE (k :> x) @@ d

get_group(a, resp) ==
  IF IsDict(resp) THEN ValidateModel("Group", resp.o)
  ELSE ValidateModel("Group", [id |-> S(a.group_id)])

create_group(a, resp) ==
  IF IsDict(resp)
  THEN LET d1 == SetDefault(resp.o, "name", S(a.name))
           d2 == IF a.members # <<>>
                 THEN SetDefault(d1, "members",
                        A([i \in DOMAIN a.members |->
                             O([number |-> S(a.members[i])])]))
                 ELSE d1
       IN ValidateModel("Group", d2)
  ELSE ValidateModel("Group", [id |-> S(PyStr(resp)), name |-> S(a.name)])

\* An optional string argument: None or a string.
ArgVal(x) == IF x = None THEN Null ELSE S(x)
ArgGiven(x) == x # None /\ x # ""

update_group(a, resp) ==
  IF IsDict(resp)
  THEN LET d0 == SetDefault(resp.o, "id", S(a.group_id))
           d1 == IF ArgGiven(a.name) THEN SetDefault(d0, "name", S(a.name)) ELSE d0
           d2 == IF ArgGiven(a.description)
                 THEN SetDefault(d1, "description", S(a.description)) ELSE d1
           d3 == IF ArgGiven(a.avatar)
                 THEN SetDefault(d2, "avatar", S(a.avatar)) ELSE d2
       IN ValidateModel("Group", d3)
  ELSE ValidateModel("Group",
         [id |-> S(a.group_id), name |-> ArgVal(a.name),
          description |-> ArgVal(a.description), avatar |-> ArgVal(a.avatar)])

\* add_members, remove_members, join_group
member_op(a, resp) ==
  IF IsDict(resp)
  THEN ValidateModel("Group", SetDefault(resp.o, "id", S(a.group_id)))
  ELSE ValidateModel("Group", [id |-> S(a.group_id)])

send_message(a, resp) ==
  LET msg_data == [message |-> S(a.message), source |-> S(a.number),
                   type |-> S("outgoing")]
  IN ValidateModel("Message",
       IF IsDict(resp) THEN resp.o @@ msg_data ELSE msg_data)

ReceiptTypeOf(o) ==
  CASE o = "messages.send_read_receipt" -> "read"
    [] o = "messages.send_viewed_receipt" -> "viewed"
    [] o = "messages.send_delivery_receipt" -> "delivery"

\* Receipt(type=..., sender=number, ..., and the response unpacked as keyword
\* arguments): unpacking needs a mapping, and a key of the response that
\* repeats a keyword given by name is a TypeError.
send_receipt(o, a, resp) ==
  LET kw == [type |-> S(ReceiptTypeOf(o)), sender |-> S(a.number),
             sender_uuid |-> Null, sender_device |-> Null,
             timestamp |-> IF a.timestamps # <<>> THEN I(a.timestamps[1])
                           ELSE Null,
             when |-> Null]
  IN IF ~IsDict(resp) THEN Raise("TypeError")
     ELSE IF DOMAIN resp.o \cap DOMAIN kw # {} THEN Raise("TypeError")
     ELSE ValidateModel("Receipt", kw @@ resp.o)

\* get_sticker_pack, install_sticker_pack
sticker_pack_op(resp) == Construct("StickerPack", resp)

\* A variant that copies the whole response over the three empty lists.
search_all_merged(resp) ==
  LET empty == [messages |-> A(<<>>), contacts |-> A(<<>>), groups |-> A(<<>>)]
  IN Ok(O(IF IsDict(resp) THEN resp.o @@ empty ELSE empty))

search_all(resp) ==
  LET pick(k) == IF IsDict(resp) /\ k \in DOMAIN resp.o THEN resp.o[k]
                 ELSE A(<<>>)
  IN Ok(O([messages |-> pick("messages"), contacts |-> pick("contacts"),
           groups |-> pick("groups")]))

-----------------------------------------------------------------------------
(* Requests *)

BaseUrl == "http://localhost:8080"

Method(o) ==
  CASE o \in { "accounts.register_account", "accounts.verify_account",
               "attachments.upload_attachment", "contacts.add_contact",
               "devices.link_device", "devices.register_device",
               "devices.verify_device", "groups.create_group",
               "groups.add_members", "groups.join_group", "groups.leave_group",
               "messages.send_message", "stickers.install_sticker_pack",
               "stickers.upload_sticker_pack" } -> "POST"
    [] o \in { "accounts.update_account", "accounts.set_pin",
               "contacts.update_contact", "contacts.block_contact",
               "contacts.unblock_contact", "groups.update_group",
               "identities.trust_identity", "identities.verify_identity",
               "messages.send_typing_indicator", "profiles.update_profile",
               "profiles.set_profile_sharing" }
           \cup ReceiptOps
           \cup { "receipts.send_read_receipt", "receipts.send_viewed_receipt",
                  "receipts.send_delivery_receipt" } -> "PUT"
    [] o \in { "accounts.delete_account", "accounts.remove_pin",
               "attachments.delete_attachment", "contacts.delete_contact",
               "groups.delete_group", "groups.remove_members",
               "identities.reset_identity_session", "messages.delete_message" }
         -> "DELETE"
    [] OTHER -> "GET"

Path(o, a) ==
  CASE o \in { "accounts.register_account", "accounts.get_account_details",
               "accounts.update_account", "accounts.delete_account" }
         -> "/v1/accounts/" \o a.number
    [] o = "accounts.verify_account"
         -> "/v1/accounts/" \o a.number \o "/verify/" \o a.verification_code
    [] o \in { "accounts.set_pin", "accounts.remove_pin" }
         -> "/v1/accounts/" \o a.number \o "/pin"
    [] o \in { "attachments.upload_attachment", "attachments.get_attachments" }
         -> "/v1/attachments/" \o a.number
    [] o \in { "attachments.get_attachment", "attachments.delete_attachment" }
         -> "/v1/attachments/" \o a.number \o "/" \o a.attachment_id
    [] o = "attachments.get_attachment_info"
         -> "/v1/attachments/" \o a.number \o "/" \o a.attachment_id \o "/info"
    [] o \in { "contacts.get_contacts", "contacts.add_contact" }
         -> "/v1/contacts/" \o a.number
    [] o \in { "contacts.get_contact", "contacts.update_contact",
               "contacts.delete_contact" }
         -> "/v1/contacts/" \o a.number \o "/" \o a.contact
    [] o = "contacts.block_contact"
         -> "/v1/contacts/" \o a.number \o "/" \o a.contact \o "/block"
    [] o = "contacts.unblock_contact"
         -> "/v1/contacts/" \o a.number \o "/" \o a.contact \o "/unblock"
    [] o = "contacts.get_blocked_contacts"
         -> "/v1/contacts/" \o a.number \o "/blocked"
    [] o \in { "devices.get_linked_devices", "devices.link_device" }
         -> "/v1/devices/" \o a.number
    [] o = "devices.get_qr_code_link" -> "/v1/qrcodelink"
    [] o = "devices.register_device" -> "/v1/register/" \o a.number
    [] o = "devices.verify_device"
         -> "/v1/register/" \o a.number \o "/verify/" \o a.token
    [] o \in { "groups.get_groups", "groups.create_group" }
         -> "/v1/groups/" \o a.number
    [] o \in { "groups.get_group", "groups.update_group", "groups.delete_group" }
         -> "/v1/groups/" \o a.number \o "/" \o a.group_id
    [] o \in { "groups.add_members", "groups.remove_members" }
         -> "/v1/groups/" \o a.number \o "/" \o a.group_id \o "/members"
    [] o = "groups.join_group"
         -> "/v1/groups/" \o a.number \o "/" \o a.group_id \o "/join"
    [] o = "groups.leave_group"
         -> "/v1/groups/" \o a.number \o "/" \o a.group_id \o "/leave"
    [] o = "identities.get_identities" -> "/v1/identities/" \o a.number
    [] o \in { "identities.get_identity", "identities.trust_identity" }
         -> "/v1/identities/" \o a.number \o "/" \o a.recipient
    [] o = "identities.verify_identity"
         -> "/v1/identities/" \o a.number \o "/" \o a.recipient \o "/verify"
    [] o = "identities.reset_identity_session"
         -> "/v1/identities/" \o a.number \o "/" \o a.recipient \o "/session"
    [] o = "messages.send_message" -> "/v2/send"
    [] o = "messages.send_typing_indicator"
         -> "/v1/typing-indicator/" \o a.number \o "/" \o a.recipient
    [] o \in { "messages.send_read_receipt", "receipts.send_read_receipt" }
         -> "/v1/receipts/" \o a.number \o "/" \o a.recipient \o "/read"
    [] o \in { "messages.send_viewed_receipt", "receipts.send_viewed_receipt" }
         -> "/v1/receipts/" \o a.number \o "/" \o a.recipient \o "/viewed"
    [] o \in { "messages.send_delivery_receipt",
               "receipts.send_delivery_receipt" }
         -> "/v1/receipts/" \o a.number \o "/" \o a.recipient \o "/delivery"
    [] o = "messages.get_messages" -> "/v1/receive/" \o a.number
    [] o = "messages.delete_message"
         -> "/v1/messages/" \o a.number \o "/" \o a.message_id
    [] o \in { "profiles.get_profile", "profiles.update_profile" }
         -> "/v1/profiles/" \o a.number
    [] o = "profiles.get_contact_profile"
         -> "/v1/profiles/" \o a.number \o "/contacts/" \o a.contact
    [] o = "profiles.get_contacts_profiles"
         -> "/v1/profiles/" \o a.number \o "/contacts"
    [] o = "profiles.set_profile_sharing"
         -> "/v1/profiles/" \o a.number \o "/contacts/" \o a.contact
            \o "/sharing"
    [] o = "receipts.get_receipts" -> "/v1/receipts/" \o a.number
    [] o = "receipts.get_message_receipts"
         -> "/v1/receipts/" \o a.number \o "/messages/" \o a.message_id
    [] o = "search.search_messages"
         -> "/v1/search/" \o a.number \o "/messages"
    [] o = "search.search_contacts"
         -> "/v1/search/" \o a.number \o "/contacts"
    [] o = "search.search_groups" -> "/v1/search/" \o a.number \o "/groups"
    [] o = "search.search_all" -> "/v1/search/" \o a.number
    [] o \in { "stickers.get_sticker_packs", "stickers.install_sticker_pack" }
         -> "/v1/stickers/" \o a.number
    [] o = "stickers.get_sticker_pack"
         -> "/v1/stickers/" \o a.number \o "/" \o a.pack_id
    [] o = "stickers.upload_sticker_pack"
         -> "/v1/stickers/" \o a.number \o "/upload"

\* A variant that tests the arguments for truth, so that 0 is left out.
update_account_data_truthy(a) ==
  LET d1 == IF Truthy(a.registration_id)
            THEN [registrationId |-> a.registration_id] ELSE <<>>
      d2 == IF Truthy(a.pni_registration_id)
            THEN d1 @@ [pniRegistrationId |-> a.pni_registration_id] ELSE d1
  IN O(d2)

\* update_account: data = {}, then one key per argument that is not None.
update_account_data(a) ==
  LET d1 == IF a.registration_id # Null
            THEN [registrationId |-> a.registration_id] ELSE <<>>
      d2 == IF a.pni_registration_id # Null
            THEN d1 @@ [pniRegistrationId |-> a.pni_registration_id] ELSE d1
  IN O(d2)

\* One field of a multipart form, as FormData.add_field(name, value) adds it.
FormField(name, value) == [name |-> name, value |-> value]

\* A variant that numbers the stickers from 1.
sticker_fields_from_one(stickers) ==
  [j \in 1..(2 * Len(stickers)) |->
     LET i == (j - 1) \div 2
     IN IF j % 2 = 1
        THEN FormField("sticker_" \o IntStr(i + 1), stickers[i + 1].image)
        ELSE FormField("emoji_" \o IntStr(i + 1), stickers[i + 1].emoji)]

\* for i, sticker in enumerate(stickers): sticker_i, then emoji_i
sticker_fields(stickers) ==
  [j \in 1..(2 * Len(stickers)) |->
     LET i == (j - 1) \div 2
     IN IF j % 2 = 1
        THEN FormField("sticker_" \o IntStr(i), stickers[i + 1].image)
        ELSE FormField("emoji_" \o IntStr(i), stickers[i + 1].emoji)]

\* upload_sticker_pack: the FormData it posts.
upload_sticker_pack_data(a) ==
  [t |-> "form",
   form |-> << FormField("title", a.title), FormField("author", a.author),
               FormField("cover", a.cover) >> \o sticker_fields(a.stickers)]

\* A variant that leaves timestamps out of the body when there are none.
receipt_data_when_any(a) ==
  IF a.timestamps = <<>> THEN O(<<>>)
  ELSE O([timestamps |-> A([i \in DOMAIN a.timestamps |-> I(a.timestamps[i])])])

\* send_*_receipt, in both modules: data = {"timestamps": timestamps}
receipt_data(a) ==
  O([timestamps |-> A([i \in DOMAIN a.timestamps |-> I(a.timestamps[i])])])

\* The operations whose request body is part of the model, and that body.
DataOps ==
  { "accounts.update_account", "stickers.upload_sticker_pack" }
    \cup ReceiptOps \cup RawReceiptOps

Data(o, a) ==
  CASE o = "accounts.update_account" -> update_account_data(a)
    [] o = "stickers.upload_sticker_pack" -> upload_sticker_pack_data(a)
    [] o \in ReceiptOps -> receipt_data(a)
    [] o \in RawReceiptOps -> receipt_data(a)

Request(o, a) ==
  IF o \in DataOps
  THEN [method |-> Method(o), url |-> BaseUrl \o Path(o, a), data |-> Data(o, a)]
  ELSE [method |-> Method(o), url |-> BaseUrl \o Path(o, a)]

\* A variant that tries the request a second time.
IssueTwice(o, a) == << Request(o, a), Request(o, a) >>

\* The requests one invocation of o hands to the transport: every operation
\* body holds one `await make_request(...)` or one `session.get/post(...)`,
\* outside any loop or exception handler.
Issue(o, a) == << Request(o, a) >>

-----------------------------------------------------------------------------
(* The request executor (utils.make_request / utils.handle_response) and the
   operations that read the HTTP response themselves *)

\* What the transport hands back: no response at all, or a status and a body
\* that is JSON text for the value `data` or is not JSON.
TransportFailure == [status |-> 0, body |-> [json |-> FALSE]]
Http(status, body) == [status |-> status, body |-> body]
Json(p) == [json |-> TRUE, data |-> p]
NotJson == [json |-> FALSE]

Placeholder == S("Unknown error")

RemoteError(status, message) ==
  [kind |-> "raise", exc |-> "RemoteError", status |-> status,
   message |-> message]

\* Classify a response: 2xx decodes the body, anything else is a RemoteError.
HandleResponse(http) ==
  IF http.status >= 200 /\ http.status <= 299
  THEN IF http.body.json THEN Ok(http.body.data) ELSE Raise("MalformedResponse")
  ELSE IF http.body.json /\ IsDict(http.body.data)
          /\ "error" \in DOMAIN http.body.data.o
       THEN RemoteError(http.status, http.body.data.o["error"])
       ELSE RemoteError(http.status, Placeholder)

\* make_request: one attempt; a failure of the transport passes through.
MakeRequest(http) ==
  IF http = TransportFailure THEN Raise("TransportError")
  ELSE HandleResponse(http)

StatusOk == 200

\* get_attachment reads the response itself.
get_attachment(http) ==
  IF http = TransportFailure THEN Raise("TransportError")
  ELSE IF http.status # StatusOk
  THEN IF ~http.body.json THEN Raise("JSONDecodeError")
       ELSE IF ~IsDict(http.body.data) THEN Raise("AttributeError")
       ELSE LET d == http.body.data.o
                error_message == IF "error" \in DOMAIN d THEN d["error"]
                                 ELSE S("Unknown error")
            IN [kind |-> "raise", exc |-> "Exception",
                message |-> "Failed to get attachment: " \o PyStr(error_message)]
  ELSE Ok([t |-> "bytes", body |-> http.body])

upload_attachment(http) ==
  IF http = TransportFailure THEN Raise("TransportError")
  ELSE HandleResponse(http)

upload_sticker_pack(http) ==
  LET response_data == upload_attachment(http)
  IN IF response_data.kind = "raise" THEN response_data
     ELSE Construct("StickerPack", response_data.v)

-----------------------------------------------------------------------------
(* Inputs *)

MaxLen == 2

\* Keys and values of the object payloads.
RecKeys == << "id", "name", "key", "timestamp", "type", "members", "x" >>

ValuesOf(k) ==
  CASE k = "id" -> { S("g1"), I(7) }
    [] k = "name" -> { S("Team") }
    [] k = "key" -> { S("k1") }
    [] k = "timestamp" -> { I(5), S("abc") }
    [] k = "type" -> { S("incoming"), S("bogus") }
    [] k = "members" ->
         { A(<< S("+1") >>), A(<< O([number |-> S("+1")]) >>) }
    [] k = "x" -> { S("v") }
    [] k = "messages" -> { A(<< O([id |-> S("g1")]) >>), Null }
    [] k = "contacts" -> { A(<<>>) }
    [] k = "groups" -> { S("g1") }

RECURSIVE RecsOver(_)
RecsOver(ks) ==
  IF ks = <<>> THEN { <<>> }
  ELSE LET rest == RecsOver(Tail(ks))
       IN rest \cup { (Head(ks) :> v) @@ r : v \in ValuesOf(Head(ks)), r \in rest }

Records == { O(r) : r \in RecsOver(RecKeys) }

ElemRecords ==
  { O([id |-> S("g1"), name |-> S("Team")]),
    O([name |-> S("Team")]),
    O([id |-> S("g1"), key |-> S("k1")]),
    O([id |-> S("g1"), timestamp |-> S("abc")]),
    O([id |-> S("g2"), timestamp |-> I(5)]) }

Scalars == { S("g1"), S(""), I(7), Null }

Elems == ElemRecords \cup { S("g1"), I(7), Null }

Arrays == { A(q) : q \in UNION { [1..n -> Elems] : n \in 0..MaxLen } }

Wrapped(key) == { O(key :> inner) : inner \in Arrays \cup Elems \cup Scalars }

ErrorBodies == { O([error |-> S("not found")]), O(<<>>), A(<<>>), Null }

TypedOps ==
  TypedListOps \cup MemberOps \cup ReceiptOps \cup StickerPackOps
  \cup { "groups.get_group", "groups.create_group", "groups.update_group",
         "messages.send_message", "stickers.upload_sticker_pack" }

\* A single sticker pack that holds its stickers, with and without the
\* sticker carrying a key.
PackPayloads ==
  { O([id |-> S("p1"), title |-> S("Pack"),
       stickers |-> A(<< O([id |-> S("s1"), emoji |-> S("e1")] @@ extra) >>)])
      : extra \in { <<>>, [key |-> S("k1")] } }

\* Search results: any of the three result keys, and a key of another name.
SearchPayloads ==
  { O(r) : r \in RecsOver(<< "messages", "contacts", "groups", "x" >>) }

\* The decoded payloads a 200 response to o may carry.
PayloadsFor(o) ==
  (IF o = "search.search_all" THEN SearchPayloads ELSE {}) \cup
  (IF o = "stickers.get_sticker_packs" THEN PackPayloads ELSE {}) \cup
  (IF o \in TypedOps THEN Records \cup Arrays \cup Scalars
   ELSE IF o \in RawListOps THEN ElemRecords \cup Arrays \cup Scalars
   ELSE ElemRecords \cup Scalars \cup { A(<<>>) })
  \cup (IF o \in ListOps THEN Wrapped(ContainerKey(o)) ELSE {})

HttpFor(o) ==
  { Http(StatusOk, Json(p)) : p \in PayloadsFor(o) }
  \cup { Http(st, Json(p)) : st \in { 201, 404, 500 }, p \in ErrorBodies }
  \cup { Http(st, NotJson) : st \in { StatusOk, 201, 404, 500 } }
  \cup { TransportFailure }

Number == "+1"

MaxStickers == 2

StickerArgs ==
  { [image |-> "img1", emoji |-> "e1"], [image |-> "img2", emoji |-> "e2"] }

ArgsFor(o) ==
  CASE o = "stickers.upload_sticker_pack" ->
         { [number |-> Number, title |-> "T", author |-> "Au", cover |-> "cv",
            stickers |-> s]
             : s \in UNION { [1..n -> StickerArgs] : n \in 0..MaxStickers } }
    [] o = "accounts.update_account" ->
         { [number |-> Number, registration_id |-> r, pni_registration_id |-> p]
             : r \in { Null, I(0), I(5) }, p \in { Null, I(7) } }
    [] o = "groups.create_group" ->
         { [number |-> Number, name |-> "New", members |-> m, avatar |-> None]
             : m \in { <<>>, << "+2" >> } }
    [] o = "groups.update_group" ->
         { [number |-> Number, group_id |-> "g9", name |-> n,
            description |-> None, avatar |-> None] : n \in { None, "New" } }
    [] o \in MemberOps ->
         { [number |-> Number, group_id |-> "g9", members |-> << "+2" >>] }
    [] o \in { "groups.get_group", "groups.delete_group", "groups.leave_group" }
         -> { [number |-> Number, group_id |-> "g9"] }
    [] o \in ReceiptOps \cup { "receipts.send_read_receipt",
                               "receipts.send_viewed_receipt",
                               "receipts.send_delivery_receipt" } ->
         { [number |-> Number, recipient |-> "+2", timestamps |-> ts]
             : ts \in { <<>>, << 5 >> } }
    [] o = "messages.send_message" ->
         { [number |-> Number, message |-> "hi", recipients |-> << "+2" >>] }
    [] OTHER ->
         { [number |-> Number, contact |-> "+2", recipient |-> "+2",
            attachment_id |-> "a1", message_id |-> "m1", pack_id |-> "p1",
            token |-> "t1", verification_code |-> "c1"] }

-----------------------------------------------------------------------------
(* The call *)

\* The module object after __init__, and the calls in progress on it: none.
MaxTasks == 2
Tasks == 1..MaxTasks
NewModule ==
  [base_url |-> BaseUrl, session |-> [state |-> "open", in_use |-> 0]]

\* `async with session.get(url) as response`: entering acquires the response,
\* unless the transport failed and there is none.
Acquire(s, http) ==
  IF http = TransportFailure THEN s ELSE [s EXCEPT !.in_use = @ + 1]

\* A variant that releases the response only when the block returns.
ExitOnReturnOnly(s, http, out) ==
  IF http = TransportFailure \/ out.kind = "raise" THEN s
  ELSE [s EXCEPT !.in_use = @ - 1]

\* Leaving the `async with` block, by return or by raise, releases the
\* response; the session itself stays open.
Exit(s, http, out) ==
  IF http = TransportFailure THEN s ELSE [s EXCEPT !.in_use = @ - 1]
IdleTask ==
  [pc |-> "idle", op |-> None, args |-> Nothing, sent |-> <<>>,
   response |-> Nothing, result |-> Nothing]
NoTasks == [t \in Tasks |-> IdleTask]

Init ==
  /\ pc = "idle" /\ op = None /\ args = Nothing /\ sent = <<>>
  /\ response = Nothing /\ result = Nothing
  /\ mcls = None /\ mrec = Nothing /\ mout = Nothing
  /\ fields = NewModule /\ tasks = NoTasks

\* The caller invokes o: the operation builds its request and awaits it.
Invoke(o) ==
  /\ pc = "idle"
  /\ \E a \in ArgsFor(o) :
       /\ op' = o /\ args' = a
       /\ sent' = sent \o Issue(o, a)
  /\ pc' = "awaiting"
  /\ UNCHANGED <<response, result, modelVars, taskVars>>

\* The transport answers the awaited request.
Respond ==
  /\ pc = "awaiting"
  /\ response' \in HttpFor(op)
  /\ pc' = "returned"
  /\ fields' = IF op \in SessionOps
               THEN [fields EXCEPT !.session = Acquire(@, response')]
               ELSE fields
  /\ UNCHANGED <<op, args, sent, result, modelVars, tasks>>

\* A variant in which search_all answers a failed request with its empty result.
CaughtBySearchAll(o, e) ==
  IF o = "search.search_all"
  THEN Ok(O([messages |-> A(<<>>), contacts |-> A(<<>>), groups |-> A(<<>>)]))
  ELSE e

\* An exception raised by `await make_request(...)` inside the body of o: no
\* body has a try statement, so it leaves the operation as it is.
Uncaught(o, e) == e

\* The rest of the operation body: a failure of make_request propagates
\* (no operation has an exception handler), a payload is shaped by Body.
Finish(Body(_)) ==
  /\ pc = "returned"
  /\ LET r == MakeRequest(response)
     IN result' = IF r.kind = "raise" THEN Uncaught(op, r) ELSE Body(r.v)
  /\ pc' = "done"
  /\ UNCHANGED <<op, args, sent, response, modelVars, taskVars>>

FinishDirect(out) ==
  /\ pc = "returned"
  /\ result' = out
  /\ pc' = "done"
  /\ fields' = [fields EXCEPT !.session = Exit(@, response, out)]
  /\ UNCHANGED <<op, args, sent, response, modelVars, tasks>>

PassThrough == op \in PassThroughOps /\ Finish(Ok)
RawList == op \in RawListOps /\ Finish(LAMBDA p : raw_list(op, p))
GetGroups == op = "groups.get_groups" /\ Finish(get_groups)
GetMessages == op = "messages.get_messages" /\ Finish(get_messages)
GetStickerPacks == op = "stickers.get_sticker_packs" /\ Finish(get_sticker_packs)
GetGroup == op = "groups.get_group" /\ Finish(LAMBDA p : get_group(args, p))
CreateGroup == op = "groups.create_group" /\ Finish(LAMBDA p : create_group(args, p))
UpdateGroup == op = "groups.update_group" /\ Finish(LAMBDA p : update_group(args, p))
MemberOp == op \in MemberOps /\ Finish(LAMBDA p : member_op(args, p))
SendMessage == op = "messages.send_message" /\ Finish(LAMBDA p : send_message(args, p))
SendReceipt == op \in ReceiptOps /\ Finish(LAMBDA p : send_receipt(op, args, p))
StickerPackOp == op \in StickerPackOps /\ Finish(sticker_pack_op)
SearchAll == op = "search.search_all" /\ Finish(search_all)
GetAttachment ==
  op = "attachments.get_attachment" /\ FinishDirect(get_attachment(response))
UploadAttachment ==
  op = "attachments.upload_attachment" /\ FinishDirect(upload_attachment(response))
UploadStickerPack ==
  op = "stickers.upload_sticker_pack" /\ FinishDirect(upload_sticker_pack(response))

\* The call is over; the caller may make another one.
NextCall ==
  /\ pc = "done"
  /\ pc' = "idle" /\ op' = None /\ args' = Nothing /\ sent' = <<>>
  /\ response' = Nothing /\ result' = Nothing
  /\ UNCHANGED <<modelVars, taskVars>>

Next ==
  \/ \E o \in Ops : Invoke(o)
  \/ Respond
  \/ PassThrough
  \/ RawList
  \/ GetGroups
  \/ GetMessages
  \/ GetStickerPacks
  \/ GetGroup
  \/ CreateGroup
  \/ UpdateGroup
  \/ MemberOp
  \/ SendMessage
  \/ SendReceipt
  \/ StickerPackOp
  \/ SearchAll
  \/ GetAttachment
  \/ UploadAttachment
  \/ UploadStickerPack
  \/ NextCall

Spec == Init /\ [][Next]_vars

-----------------------------------------------------------------------------
(* Building entities directly from a record *)

Classes ==
  { "LoggingConfig", "Configuration", "Capabilities", "About",
    "AccountSettings", "AccountRegistrationResponse",
    "AccountVerificationResponse", "AccountDetails", "Device", "LinkedDevice",
    "MessageAttachment", "MessageMention", "MessageQuote", "Message",
    "GroupMember", "GroupInfo", "Group", "Attachment", "Profile", "Identity",
    "Reaction", "Receipt", "SearchResult", "Sticker", "StickerPack", "Contact" }

\* The declared fields the records of the model may set, per class at most
\* MaxFields of them, and one undeclared key "x".
MaxFields == 3

FieldChoice ==
  << "id", "type", "role", "trust_level", "level", "Level", "logging",
     "Logging", "emoji", "key", "name", "timestamp", "trust_mode", "build",
     "mode", "version", "versions", "members", "stickers", "uuid", "results",
     "captcha_required", "start" >>

Take(q, n) == SubSeq(q, 1, IF Len(q) < n THEN Len(q) ELSE n)

KeysOf(cls) ==
  Take(SelectSeq(FieldChoice, LAMBDA k : k \in FieldNames(cls)), MaxFields)

FieldNamed(cls, k) ==
  Fields(cls)[CHOOSE i \in DOMAIN Fields(cls) : Fields(cls)[i].name = k]

\* Values a record may give a declared field: some its type accepts, some not.
ValuesFor(f) ==
  CASE f.name \in { "level", "Level" } ->
         { S(""), S("info"), S("debug"), I(7), Null }
    [] f.k = "str" -> { S("g1"), I(7), Null }
    [] f.k = "int" -> { I(5), S("12"), S("abc"), Null }
    [] f.k = "bool" -> { B(TRUE), S("abc") }
    [] f.k = "enum" ->
         { S(CHOOSE m \in EnumMembers(f.of) : TRUE), S("bogus"), I(7), Null }
    [] f.k = "datetime" -> { I(5), S("abc") }
    [] f.k = "model" ->
         { O(<<>>), O([level |-> S("debug")]), O([Level |-> S("info")]),
           Null, S("g1") }
    [] f.k = "list" -> { A(<<>>), A(<< O(<<>>) >>), A(<< S("+1") >>), Null }
    [] OTHER -> { O(<<>>), S("g1") }

RECURSIVE RecsFor(_, _)
RecsFor(cls, ks) ==
  IF ks = <<>> THEN { <<>>, [x |-> S("v")] }
  ELSE LET rest == RecsFor(cls, Tail(ks))
       IN rest \cup { (Head(ks) :> v) @@ r :
                        v \in ValuesFor(FieldNamed(cls, Head(ks))), r \in rest }

InitModels ==
  /\ pc = "idle" /\ op = None /\ args = Nothing /\ sent = <<>>
  /\ response = Nothing /\ result = Nothing
  /\ mcls = None /\ mrec = Nothing /\ mout = Nothing
  /\ fields = NewModule /\ tasks = NoTasks

\* One entity is built from one record.
Build(cls) ==
  /\ mout = Nothing
  /\ \E rec \in RecsFor(cls, KeysOf(cls)) :
       /\ mcls' = cls
       /\ mrec' = rec
       /\ mout' = ValidateModel(cls, rec)
  /\ UNCHANGED <<callVars, taskVars>>

\* The entity is dropped; another may be built.
Discard ==
  /\ mout # Nothing
  /\ mcls' = None /\ mrec' = Nothing /\ mout' = Nothing
  /\ UNCHANGED <<callVars, taskVars>>

NextModels ==
  \/ \E cls \in Classes : Build(cls)
  \/ Discard

SpecModels == InitModels /\ [][NextModels]_vars

-----------------------------------------------------------------------------
(* Concurrent calls on one module object *)

\* The operations and responses of the concurrent runs.
TaskOps ==
  { "groups.get_groups", "messages.send_message", "search.search_all",
    "attachments.get_attachment" }

TaskResponses ==
  { Http(StatusOk, Json(A(<< O([id |-> S("g1"), name |-> S("Team")]) >>))),
    Http(StatusOk, Json(O(<<>>))),
    Http(404, Json(O([error |-> S("not found")]))),
    TransportFailure }

\* url = f"{self.base_url}/..." : the request is built from the field as it is
\* when the call starts.
RequestFrom(base_url, o, a) ==
  [method |-> Method(o), url |-> base_url \o Path(o, a)]

\* What the body of o returns or raises, from its arguments and its response.
Returned(o, a, http) ==
  IF o = "attachments.get_attachment" THEN get_attachment(http)
  ELSE LET r == MakeRequest(http)
       IN IF r.kind = "raise" THEN Uncaught(o, r)
          ELSE CASE o = "groups.get_groups" -> get_groups(r.v)
                 [] o = "messages.send_message" -> send_message(a, r.v)
                 [] o = "search.search_all" -> search_all(r.v)

\* A variant in which send_message leaves another base_url in the module.
FieldsAfterRebase(o, f) ==
  IF o = "messages.send_message"
  THEN [f EXCEPT !.base_url = "http://localhost:9922"] ELSE f

\* The fields of the module after a call of o: no operation assigns to self.
FieldsAfter(o, f) == f

InitTasks ==
  /\ pc = "idle" /\ op = None /\ args = Nothing /\ sent = <<>>
  /\ response = Nothing /\ result = Nothing
  /\ mcls = None /\ mrec = Nothing /\ mout = Nothing
  /\ fields = NewModule /\ tasks = NoTasks

\* Call t starts: it builds its url from self.base_url and awaits the request.
TaskInvoke(t) ==
  /\ tasks[t].pc = "idle"
  /\ \E o \in TaskOps : \E a \in ArgsFor(o) :
       tasks' = [tasks EXCEPT ![t] =
                   [pc |-> "awaiting", op |-> o, args |-> a,
                    sent |-> << RequestFrom(fields.base_url, o, a) >>,
                    response |-> Nothing, result |-> Nothing]]
  /\ UNCHANGED <<fields, callVars, modelVars>>

\* The session answers the request of call t.
TaskRespond(t) ==
  /\ tasks[t].pc = "awaiting"
  /\ \E http \in TaskResponses :
       tasks' = [tasks EXCEPT ![t].pc = "returned", ![t].response = http]
  /\ UNCHANGED <<fields, callVars, modelVars>>

\* Call t runs the rest of its body.
TaskFinish(t) ==
  /\ tasks[t].pc = "returned"
  /\ tasks' = [tasks EXCEPT ![t].pc = "done",
                 ![t].result = Returned(tasks[t].op, tasks[t].args,
                                        tasks[t].response)]
  /\ fields' = FieldsAfter(tasks[t].op, fields)
  /\ UNCHANGED <<callVars, modelVars>>

\* The caller has the result of call t and may start another.
TaskReset(t) ==
  /\ tasks[t].pc = "done"
  /\ tasks' = [tasks EXCEPT ![t] = IdleTask]
  /\ UNCHANGED <<fields, callVars, modelVars>>

NextTasks ==
  \/ \E t \in Tasks : TaskInvoke(t)
  \/ \E t \in Tasks : TaskRespond(t)
  \/ \E t \in Tasks : TaskFinish(t)
  \/ \E t \in Tasks : TaskReset(t)

SpecTasks == InitTasks /\ [][NextTasks]_vars

-----------------------------------------------------------------------------
(* Properties *)

\* The payload the executor decoded for the current call, when it did.
Got == MakeRequest(response)
Decoded == pc = "done" /\ op \notin SessionOps /\ Got.kind = "ok"
Payload == Got.v

\* Rules 2-4 of the normalizer: an array is the sequence itself, anything else
\* is a sequence of one.
NormalForm(x) == IF IsList(x) THEN x ELSE A(<< x >>)

\* The element conversion of a list operation applied along a sequence.
CoerceEach(o, xs) ==
  CASE o = "groups.get_groups" -> ForEach(xs, GroupOf)
    [] o = "messages.get_messages" -> ForEach(xs, MessageOf)
    [] o = "stickers.get_sticker_packs" -> ForEach(xs, StickerPackOf)
    [] OTHER -> Ok(xs)

EntityClass(o) ==
  CASE o = "groups.get_groups" -> "Group"
    [] o = "messages.get_messages" -> "Message"
    [] o = "stickers.get_sticker_packs" -> "StickerPack"

\* The attributes of an entity, or the keys of a raw record.
AttrsOf(e) ==
  CASE e.t = "model" -> e.m
    [] e.t = "obj" -> e.o
    [] OTHER -> <<>>

AllRecords(xs) == IsList(xs) /\ \A i \in DOMAIN xs.a : IsDict(xs.a[i])

\* entry e carries the id and the name of the record r
CarriesIdAndName(e, r) ==
  \A k \in { "id", "name" } \cap DOMAIN r.o :
    k \in DOMAIN AttrsOf(e) /\ AttrsOf(e)[k] = r.o[k]

\* The result is a sequence of n entries.
ReturnsSeq(n) ==
  result.kind = "ok" /\ IsList(result.v) /\ Len(result.v.a) = n

\* C1: for a list operation and an object payload that contains the
\* operation's container key, the result equals the result of normalizing the
\* inner value directly (rules 2-4) and coercing it, whatever the non-null
\* inner value is (array, single object or scalar).
C1_UnwrapEqualsDirect ==
  (Decoded /\ op \in ListOps /\ IsDict(Payload)
     /\ ContainerKey(op) \in DOMAIN Payload.o
     /\ Payload.o[ContainerKey(op)] # Null)
  => result = CoerceEach(op, NormalForm(Payload.o[ContainerKey(op)]))

\* C2: for a list L of records, a list operation given L and the same
\* operation given the wrapper {containerKey: L} return one entry per element
\* of L, in order, each carrying that element's id and name.
C2_OneEntryPerRecord ==
  \A L \in Arrays :
    (Decoded /\ op \in ListOps /\ AllRecords(L)
       /\ Payload \in { L, O(ContainerKey(op) :> L) })
    => /\ ReturnsSeq(Len(L.a))
       /\ \A i \in DOMAIN L.a : CarriesIdAndName(result.v.a[i], L.a[i])

\* C3: for an object O without the container key, a list operation returns a
\* sequence of exactly one element, built from O itself.
C3_ObjectWithoutKeyIsSingle ==
  (Decoded /\ op \in ListOps /\ IsDict(Payload)
     /\ ContainerKey(op) \notin DOMAIN Payload.o)
  => /\ ReturnsSeq(1)
     /\ CarriesIdAndName(result.v.a[1], Payload)

\* C4: for every well-formed JSON payload returned with a success status, the
\* normalization and coercion steps of every typed operation complete with a
\* result and never raise.
C4TypedOps ==
  TypedListOps \cup StickerPackOps \cup ReceiptOps
  \cup { "groups.get_group", "groups.create_group", "messages.send_message" }

C4_TypedOpsNeverRaise ==
  (Decoded /\ op \in C4TypedOps) => result.kind = "ok"

\* C5: building an entity from any string-keyed mapping produces an entity
\* without raising.
C5_CoercionTotal ==
  mout # Nothing => mout.kind = "ok"

\* C6: every key of the source record that is not a declared field of the
\* entity is retained on the built entity under its name with its value, for
\* all models.
C6_UnknownKeysRetained ==
  (mout # Nothing /\ mout.kind = "ok")
  => \A k \in DOMAIN mrec \ FieldNames(mcls) :
       k \in DOMAIN mout.v.m /\ mout.v.m[k] = mrec[k]

\* The declared fields of cls that the record r sets to a value their type
\* rejects, and the required ones it does not set.
Mistyped(cls, r) ==
  { i \in DOMAIN Fields(cls) :
      /\ Fields(cls)[i].name \in DOMAIN r
      /\ FieldOutcome(Fields(cls)[i], r).kind = "raise" }

Missing(cls, r) ==
  { i \in DOMAIN Fields(cls) :
      Fields(cls)[i].req /\ Fields(cls)[i].name \notin DOMAIN r }

\* The entity e holds field i of cls as the record r gives it, coerced, or the
\* field's default when r mistypes it.
DegradedField(cls, e, r, i) ==
  LET f == Fields(cls)[i]
  IN /\ f.name \in DOMAIN AttrsOf(e)
     /\ AttrsOf(e)[f.name] =
          IF i \in Mistyped(cls, r) THEN f.def ELSE FieldOutcome(f, r).v

\* C7: when a typed list operation receives a sequence of records that set
\* every required field and exactly one of them mistypes exactly one declared
\* field, the call returns one entity per record; the mistyped field holds its
\* default and every other field of every record is coerced normally.
C7_MistypedFieldDegrades ==
  \A L \in Arrays :
    (/\ Decoded /\ op \in TypedListOps /\ Payload = L /\ AllRecords(L)
     /\ \A i \in DOMAIN L.a : Missing(EntityClass(op), L.a[i].o) = {}
     /\ Cardinality(UNION { { << i, j >> : j \in Mistyped(EntityClass(op), L.a[i].o) }
                              : i \in DOMAIN L.a }) = 1)
    => /\ ReturnsSeq(Len(L.a))
       /\ \A i \in DOMAIN L.a : \A j \in DOMAIN Fields(EntityClass(op)) :
            DegradedField(EntityClass(op), result.v.a[i], L.a[i].o, j)

\* The enum-valued fields of cls that the record r sets to a string that is no
\* member of the enum, every other key of r being acceptable.
UnknownEnumFields(cls, r) ==
  { i \in DOMAIN Fields(cls) :
      /\ Fields(cls)[i].k = "enum"
      /\ Fields(cls)[i].name \in DOMAIN r
      /\ IsStr(r[Fields(cls)[i].name])
      /\ r[Fields(cls)[i].name].s \notin EnumMembers(Fields(cls)[i].of)
      /\ Mistyped(cls, r) = { i }
      /\ Missing(cls, r) = {} }

\* C8: an enum-valued field whose source value is not a member of the enum
\* holds a member of the enum after coercion (the declared default where the
\* field has one), and coercion succeeds.
C8_UnknownEnumFallsBack ==
  mout # Nothing
  => \A i \in UnknownEnumFields(mcls, mrec) :
       LET f == Fields(mcls)[i]
       IN /\ mout.kind = "ok"
          /\ IsStr(mout.v.m[f.name])
          /\ mout.v.m[f.name].s \in EnumMembers(f.of)
          /\ (f.def # Null => mout.v.m[f.name] = f.def)

\* What the record gives a LoggingConfig field: its value, or the declared
\* default "" when the key is absent.
Given(k) == IF k \in DOMAIN mrec THEN mrec[k] ELSE S("")

BuiltLoggingConfig ==
  mout # Nothing /\ mcls = "LoggingConfig" /\ mout.kind = "ok"

\* C9: in a LoggingConfig built from a record, level equals the record's level
\* when that is non-empty and the record's Level otherwise; Level never
\* overwrites a non-empty level.
C9_CanonicalLevelWins ==
  BuiltLoggingConfig
  => mout.v.m["level"] =
       IF Given("level") # S("") THEN Given("level") ELSE Given("Level")

\* Both spellings given: the canonical one is kept.
C9_Witness ==
  /\ BuiltLoggingConfig
  /\ mrec = [level |-> S("debug"), Level |-> S("info")]
  /\ mout.v.m["level"] = S("debug")

\* C10: every invocation of an operation hands exactly one request to the
\* transport, whether the call succeeds or fails: none before the call, and the
\* one request of the operation, unrepeated, from the call to its end.
C10_OneRequestPerInvocation ==
  /\ pc = "idle" => sent = <<>>
  /\ pc \in { "awaiting", "returned", "done" } => sent = << Request(op, args) >>

\* A call that failed with a status outside 2xx, and was not tried again.
C10_Witness ==
  /\ pc = "done"
  /\ result.kind = "raise" /\ result.exc = "RemoteError"
  /\ Len(sent) = 1

\* C11: when the request executor fails for a call (remote error, malformed
\* response or transport error), the operation ends with that same failure,
\* unmodified; it returns no default or partial result.
C11_FailurePropagates ==
  (pc = "done" /\ op # "attachments.get_attachment" /\ Got.kind = "raise")
  => result = Got

\* search_all, whose request met a body that is not JSON.
C11_Witness ==
  /\ pc = "done" /\ op = "search.search_all"
  /\ Got = Raise("MalformedResponse")
  /\ result = Got

\* The message a failed response carries: the body's "error" field, or the
\* placeholder when the body has none or cannot be decoded.
ErrorMessage(http) ==
  IF http.body.json /\ IsDict(http.body.data)
     /\ "error" \in DOMAIN http.body.data.o
  THEN http.body.data.o["error"] ELSE Placeholder

NonSuccess ==
  /\ pc = "done" /\ response # TransportFailure
  /\ ~(response.status >= 200 /\ response.status <= 299)

\* C12: on every request path (get_attachment included) a response with a
\* non-2xx status makes the call fail with RemoteError carrying the HTTP status
\* and the body's error message, or the placeholder when the body cannot be
\* decoded.
C12_NonSuccessIsRemoteError ==
  NonSuccess
  => /\ result.kind = "raise" /\ result.exc = "RemoteError"
     /\ result.status = response.status
     /\ result.message = ErrorMessage(response)

Success2xx ==
  /\ pc = "done" /\ response # TransportFailure
  /\ response.status >= 200 /\ response.status <= 299

\* C13: every response with a 2xx status is a success: an operation that hands
\* the payload on returns the decoded payload, and get_attachment returns the
\* body bytes for any 2xx status.
C13_Every2xxIsSuccess ==
  Success2xx
  => /\ (op \in PassThroughOps /\ response.body.json)
          => result = Ok(response.body.data)
     /\ op = "attachments.get_attachment"
          => result = Ok([t |-> "bytes", body |-> response.body])

C15_CreateGroupKeepsResponse ==
  (Decoded /\ op = "groups.create_group" /\ IsDict(Payload))
  => /\ result.kind = "ok"
     /\ \A k \in DOMAIN Payload.o :
          k \in DOMAIN AttrsOf(result.v) /\ AttrsOf(result.v)[k] = Payload.o[k]

\* entry e carries the keys ks of the record r
CarriesKeys(e, r, ks) ==
  \A k \in ks \cap DOMAIN r.o :
    k \in DOMAIN AttrsOf(e) /\ AttrsOf(e)[k] = r.o[k]

\* C16: when the response to get_sticker_packs is a single sticker-pack object
\* that contains a "stickers" array, the result is a list with one entry per
\* element of that array, each carrying the id and emoji of its sticker.
C16_PackObjectYieldsItsStickers ==
  (Decoded /\ op = "stickers.get_sticker_packs" /\ Payload \in PackPayloads)
  => LET stickers == Payload.o["stickers"]
     IN /\ ReturnsSeq(Len(stickers.a))
        /\ \A i \in DOMAIN stickers.a :
             CarriesKeys(result.v.a[i], stickers.a[i], { "id", "emoji" })

\* The keys update_account is to send: one per supplied argument.
SuppliedKeys ==
  { k \in { "registrationId", "pniRegistrationId" } :
      IF k = "registrationId" THEN args.registration_id # Null
      ELSE args.pni_registration_id # Null }

\* C17: update_account sends one PUT to /v1/accounts/{number} whose body holds
\* registrationId exactly when registration_id was supplied (0 included) and
\* pniRegistrationId exactly when pni_registration_id was supplied, each with
\* the supplied value, and no other key.
C17_UpdateAccountBody ==
  (op = "accounts.update_account" /\ pc # "idle")
  => /\ Len(sent) = 1
     /\ sent[1].method = "PUT"
     /\ sent[1].url = BaseUrl \o "/v1/accounts/" \o args.number
     /\ sent[1].data =
          O([k \in SuppliedKeys |->
               IF k = "registrationId" THEN args.registration_id
               ELSE args.pni_registration_id])

\* registration_id 0 alone: the body is {"registrationId": 0}.
C17_Witness ==
  /\ op = "accounts.update_account" /\ pc = "done"
  /\ args.registration_id = I(0) /\ args.pni_registration_id = Null
  /\ sent = << [method |-> "PUT", url |-> "http://localhost:8080/v1/accounts/+1",
                data |-> O([registrationId |-> I(0)])] >>

\* C18: upload_sticker_pack with n stickers posts once, to
\* /v1/stickers/{number}/upload, one form of 3 + 2n fields: title, author,
\* cover, then for each i from 0 to n-1 in order sticker_i holding
\* stickers[i].image and emoji_i holding stickers[i].emoji; the response is
\* handled once and the pack is built from what the handler returns.
C18_UploadStickerPackForm ==
  (op = "stickers.upload_sticker_pack" /\ pc # "idle")
  => LET n == Len(args.stickers)
         form == sent[1].data.form
     IN /\ Len(sent) = 1
        /\ sent[1].method = "POST"
        /\ sent[1].url = BaseUrl \o "/v1/stickers/" \o args.number \o "/upload"
        /\ Len(form) = 3 + 2 * n
        /\ form[1] = [name |-> "title", value |-> args.title]
        /\ form[2] = [name |-> "author", value |-> args.author]
        /\ form[3] = [name |-> "cover", value |-> args.cover]
        /\ \A i \in 0..(n - 1) :
             /\ form[4 + 2 * i] =
                  [name |-> "sticker_" \o IntStr(i),
                   value |-> args.stickers[i + 1].image]
             /\ form[5 + 2 * i] =
                  [name |-> "emoji_" \o IntStr(i),
                   value |-> args.stickers[i + 1].emoji]
        /\ pc = "done" =>
             result = IF HandleResponse(response).kind = "raise"
                         \/ response = TransportFailure
                      THEN MakeRequest(response)
                      ELSE Construct("StickerPack", HandleResponse(response).v)

\* Two stickers uploaded and the pack returned.
C18_Witness ==
  /\ op = "stickers.upload_sticker_pack" /\ pc = "done"
  /\ Len(args.stickers) = 2 /\ args.stickers[1] # args.stickers[2]
  /\ Len(sent[1].data.form) = 7
  /\ result.kind = "ok"

\* The value under the container key of an object payload.
Inner == Payload.o[ContainerKey(op)]

HasContainerKey ==
  /\ Decoded /\ op \in ListOps /\ IsDict(Payload)
  /\ ContainerKey(op) \in DOMAIN Payload.o

\* The result is a sequence of one element, which is x itself for a raw list
\* operation and an entity carrying x's id and name for a typed one.
ReturnsSingle(x) ==
  /\ ReturnsSeq(1)
  /\ op \in RawListOps => result.v.a[1] = x
  /\ (op \in TypedListOps /\ IsDict(x)) => CarriesIdAndName(result.v.a[1], x)

\* C19: when the container key of an object payload holds a value that is not
\* an array (a string, a number or a single object), a list operation still
\* returns a sequence: one element, which is or is built from that value;
\* never one element per character or key, and never a non-sequence.
C19_WrongShapedContainerIsSingle ==
  (HasContainerKey /\ Inner # Null /\ ~IsList(Inner)) => ReturnsSingle(Inner)

\* C20: when the container key of an object payload holds null, a list
\* operation does not unwrap it: it treats the whole object as a single record
\* and returns a one-element sequence built from the object.
C20_NullContainerIsNotUnwrapped ==
  (HasContainerKey /\ Inner = Null) => ReturnsSingle(Payload)

\* The values a payload that is no object stands for: its elements when it is
\* an array, itself otherwise.
ValuesIn(p) == IF IsList(p) THEN p.a ELSE << p >>

\* The field holds the value x: x itself, or the decimal text of a number.
Holds(field, x) == field = x \/ (x.t = "int" /\ field = S(IntStr(x.i)))

\* C21: for a payload that is a bare scalar, or an array of values that are no
\* objects, a typed list operation returns exactly one entity per value, in
\* order; get_groups holds the value in Group.id and get_messages in
\* Message.message.
C21_ScalarsBecomeEntities ==
  (/\ Decoded /\ op \in TypedListOps /\ ~IsDict(Payload)
   /\ \A i \in DOMAIN ValuesIn(Payload) : ~IsDict(ValuesIn(Payload)[i]))
  => /\ ReturnsSeq(Len(ValuesIn(Payload)))
     /\ \A i \in DOMAIN ValuesIn(Payload) :
          /\ op = "groups.get_groups"
               => Holds(AttrsOf(result.v.a[i])["id"], ValuesIn(Payload)[i])
          /\ op = "messages.get_messages"
               => Holds(AttrsOf(result.v.a[i])["message"], ValuesIn(Payload)[i])

Built == mout # Nothing /\ mout.kind = "ok"

\* C22: in every entity that is built, a sequence-valued field the record does
\* not set is an empty sequence, never null; one the record sets holds, in
\* order, the nested entities built from its elements by the same rules.
C22_NestedSequences ==
  Built
  => \A i \in DOMAIN Fields(mcls) :
       LET f == Fields(mcls)[i]
           v == mout.v.m[f.name]
       IN f.k = "list"
          => /\ IsList(v)
             /\ f.name \notin DOMAIN mrec => v = A(<<>>)
             /\ (f.name \in DOMAIN mrec /\ f.of \notin { "@str", "@any" })
                  => /\ Len(v.a) = Len(mrec[f.name].a)
                     /\ \A j \in DOMAIN v.a :
                          /\ v.a[j].t = "model" /\ v.a[j].cls = f.of
                          /\ Ok(v.a[j]) = Construct(f.of, mrec[f.name].a[j])

\* A group with one member record: members holds one GroupMember, and the
\* sequences the record does not set are empty.
C22_Witness ==
  /\ Built /\ mcls = "Group"
  /\ "members" \in DOMAIN mrec /\ Len(mrec["members"].a) = 1
  /\ mout.v.m["members"].a[1].cls = "GroupMember"
  /\ mout.v.m["admins"] = A(<<>>)

\* C23: on a successful response get_attachment returns the body bytes exactly
\* as read, whether or not the body is JSON, with no decoding, normalization
\* or coercion.
C23_AttachmentBytesAsRead ==
  (Success2xx /\ op = "attachments.get_attachment")
  => /\ result.kind = "ok"
     /\ result.v.t = "bytes"
     /\ result.v.body = response.body

\* C24: in the operations that use the session directly, the response acquired
\* for the call is held only while the body runs: it is released on every exit
\* path, by return and by raise, before the call ends; nothing is held between
\* calls and the shared session is never closed.
C24_ResponseReleased ==
  /\ fields.session.state = "open"
  /\ pc \in { "idle", "awaiting", "done" } => fields.session.in_use = 0
  /\ (pc = "returned" /\ op \in SessionOps)
       => fields.session.in_use = IF response = TransportFailure THEN 0 ELSE 1

\* get_attachment has raised on a 404 and its response is released.
C24_Witness ==
  /\ pc = "done" /\ op = "attachments.get_attachment"
  /\ response.status = 404 /\ result.kind = "raise"
  /\ fields.session.in_use = 0

\* The value of key k in the payload when it is an object holding k, else x.
FromResponseOr(k, x) ==
  IF IsDict(Payload) /\ k \in DOMAIN Payload.o THEN Payload.o[k] ELSE x

\* C25: for every object response, each send_*_receipt of the messages module
\* returns a Receipt whose type is the operation's own, whose sender is the
\* caller's number and whose timestamp is the first of timestamps, or absent
\* when there is none; also when the response holds keys of those names.
C25_ReceiptFromRequest ==
  (Decoded /\ op \in ReceiptOps /\ IsDict(Payload))
  => /\ result.kind = "ok"
     /\ result.v.m["type"] = S(ReceiptTypeOf(op))
     /\ result.v.m["sender"] = S(args.number)
     /\ result.v.m["timestamp"] =
          IF args.timestamps = <<>> THEN Null ELSE I(args.timestamps[1])

\* C26: send_message returns a Message whose message, source and type are the
\* request's text, the sender's number and OUTGOING, except that a key of an
\* object response overrides the value of the same name; for a response that
\* is no object every other field is absent or default.
C26_SendMessageResponseWins ==
  (Decoded /\ op = "messages.send_message")
  => /\ result.kind = "ok"
     /\ result.v.m["message"] = FromResponseOr("message", S(args.message))
     /\ result.v.m["source"] = FromResponseOr("source", S(args.number))
     /\ result.v.m["type"] = FromResponseOr("type", S("outgoing"))
     /\ ~IsDict(Payload)
          => \A i \in DOMAIN Fields("Message") :
               LET f == Fields("Message")[i]
               IN f.name \notin { "message", "source", "type" }
                    => result.v.m[f.name] = f.def

\* C27: update_group, add_members, remove_members and join_group always return
\* a Group with an id: the response's id when an object response has one, else
\* the requested group_id; in update_group a requested name fills the result
\* only when the response lacks that key.
C27_GroupAlwaysHasId ==
  (Decoded /\ op \in MemberOps \cup { "groups.update_group" })
  => /\ result.kind = "ok"
     /\ result.v.m["id"] = FromResponseOr("id", S(args.group_id))
     /\ (op = "groups.update_group" /\ ArgGiven(args.name))
          => result.v.m["name"] = FromResponseOr("name", S(args.name))

\* C28: for every decoded payload search_all returns a mapping with exactly
\* the keys messages, contacts and groups; each holds the response's value for
\* that key when the response is an object containing it and an empty list
\* otherwise, and no other key of the response is copied.
C28_SearchAllThreeKeys ==
  (Decoded /\ op = "search.search_all")
  => /\ result.kind = "ok" /\ IsDict(result.v)
     /\ DOMAIN result.v.o = { "messages", "contacts", "groups" }
     /\ \A k \in { "messages", "contacts", "groups" } :
          result.v.o[k] = FromResponseOr(k, A(<<>>))

\* A response with messages and a foreign key x: messages is taken, x is not.
C28_Witness ==
  /\ Decoded /\ op = "search.search_all" /\ IsDict(Payload)
  /\ DOMAIN Payload.o = { "messages", "x" } /\ Payload.o["messages"] # Null
  /\ result.v.o["messages"] = Payload.o["messages"]
  /\ result.v.o["groups"] = A(<<>>)

\* The level a logging entry r resolves to: its level when non-empty, else its
\* Level, else empty.
Resolved(r) ==
  LET lv == IF "level" \in DOMAIN r THEN r["level"] ELSE S("")
  IN IF lv # S("") THEN lv
     ELSE IF "Level" \in DOMAIN r THEN r["Level"] ELSE S("")

BuiltConfiguration == Built /\ mcls = "Configuration"

\* C29: in a Configuration built from a record, logging.level is the level the
\* lowercase logging entry resolves to when that is non-empty, and otherwise
\* the level the capitalized Logging entry resolves to when there is one; with
\* neither entry, logging is a default LoggingConfig with empty level.
C29_ConfigurationLogging ==
  BuiltConfiguration
  => LET lower == IF "logging" \in DOMAIN mrec
                  THEN Resolved(mrec["logging"].o) ELSE S("")
         upper == IF "Logging" \in DOMAIN mrec /\ mrec["Logging"] # Null
                  THEN Resolved(mrec["Logging"].o) ELSE S("")
     IN /\ mout.v.m["logging"].m["level"] =
             IF lower # S("") THEN lower ELSE upper
        /\ DOMAIN mrec \cap { "logging", "Logging" } = {}
             => mout.v.m["logging"] = LoggingConfigDefault

\* logging resolves to info through its own Level, and the capitalized entry,
\* which says debug, does not replace it.
C29_Witness ==
  /\ BuiltConfiguration
  /\ mrec = [logging |-> O([Level |-> S("info")]),
             Logging |-> O([level |-> S("debug")])]
  /\ mout.v.m["logging"].m["level"] = S("info")

\* The same-named receipt operation of the other module.
Twin(o) ==
  CASE o = "messages.send_read_receipt" -> "receipts.send_read_receipt"
    [] o = "messages.send_viewed_receipt" -> "receipts.send_viewed_receipt"
    [] o = "messages.send_delivery_receipt" -> "receipts.send_delivery_receipt"
    [] o = "receipts.send_read_receipt" -> "messages.send_read_receipt"
    [] o = "receipts.send_viewed_receipt" -> "messages.send_viewed_receipt"
    [] o = "receipts.send_delivery_receipt" -> "messages.send_delivery_receipt"

\* C30: a receipt-sending operation of either module sends what the same-named
\* operation of the other module sends for the same number, recipient and
\* timestamps: one PUT to the same URL with the body {timestamps: timestamps}.
C30_ReceiptRequestsAgree ==
  (pc \in { "awaiting", "returned", "done" } /\ op \in ReceiptOps \cup RawReceiptOps)
  => /\ sent = Issue(Twin(op), args)
     /\ sent[1].method = "PUT"
     /\ sent[1].data =
          O([timestamps |->
               A([i \in DOMAIN args.timestamps |-> I(args.timestamps[i])])])

\* A read receipt for no timestamps, sent through the messages module and
\* answered: the body still carries the empty timestamps list.
C30_Witness ==
  /\ pc = "done"
  /\ op = "messages.send_read_receipt"
  /\ args.timestamps = <<>>
  /\ sent[1].data = O([timestamps |-> A(<<>>)])
  /\ sent[1].url = BaseUrl \o "/v1/receipts/+1/+2/read"
  /\ result.kind = "ok"

====
